---- MODULE Spec2Model ----
(***************************************************************************)
(* The per-tuple execution plan of a continuous SELECT query               *)
(* (execution.NewDefaultSelectExecutionPlan / ExecutionPlan.Process), as   *)
(* exercised by the plan's test suite: sliding windows, relation composer, *)
(* projection, the EVERY cadence and the RSTREAM/ISTREAM/DSTREAM emitters. *)
(*                                                                         *)
(* Values are integers, a tuple's data and an output row are maps written  *)
(* as sets of <<key, value>> pairs, a window buffer and an output are      *)
(* sequences.                                                              *)
(*                                                                         *)
(* The second part is the static topology builder                          *)
(* (core/default_static_topology_builder.go): sources, boxes and sinks are *)
(* registered by name, declarers connect them by edges, Build checks the   *)
(* graph and returns the topology once.                                    *)
(*                                                                         *)
(* Spec runs one plan, BuilderSpec one builder, TwinSpec two plans built   *)
(* from the same query, CopySpec a plan whose caller keeps and overwrites  *)
(* the tuples it handed over.                                              *)
(***************************************************************************)
EXTENDS Integers, Sequences, FiniteSets, TLC

\* ------------------------------------------------------------------ bounds
\* Process calls made on one plan
MaxSteps == 4
\* event timestamps are 0..MaxTs seconds after the epoch
MaxTs == 2
\* the values of the int column are 1..MaxInt
MaxInt == 2
\* calls made on one topology builder and its declarers
MaxCalls == 5

VARIABLES
    query,           \* the compiled logical plan the plan was built from
    buffers,         \* window buffer of every FROM relation, in arrival order
    arrival_counts,  \* admissions per relation, and under "*" over all relations
    prev_output,     \* rows produced by the most recent fired, error-free cycle
    out,             \* rows returned by the last Process call
    err,             \* error returned by the last Process call, "none" if nil
    fired,           \* whether the last Process call passed the cadence gate
    lastTuple,       \* the tuple handed to the last Process call
    lastPrev,        \* prev_output as it was when the last Process call began
    admitted,        \* per relation, the most recently admitted tuples (history)
    ordered,         \* whether every relation's tuples came in timestamp order so far
    cycles,          \* number of fired cycles that ended without error so far
    admissions,      \* number of Process calls that admitted their tuple so far
    lastGood,        \* the rows the windows held at the last fired, error-free cycle
    calls,           \* number of Process calls made so far
    sources,         \* tb.sources: the names of the registered sources
    boxes,           \* tb.boxes: the registered boxes by name
    sinks,           \* tb.sinks: the names of the registered sinks
    Edges,           \* tb.Edges: the declared edges, in declaration order
    builtFlag,       \* tb.builtFlag
    declarers,       \* the box and sink declarers handed out so far
    result,          \* what the last call on the builder or a declarer returned
    builds,          \* the error of every Build call so far, in call order
    tbcalls,         \* number of calls made on the builder and its declarers
    history,         \* the tuples handed to the plan so far, in call order
    results,         \* what the plan returned for each of them: rows and error
    twin,            \* a second plan built from the same query, and its results
    cells            \* the tuple the caller handed over last and still holds

planvars == <<query, buffers, arrival_counts, prev_output, out, err, fired,
              lastTuple, lastPrev, admitted, ordered, cycles, admissions,
              lastGood, calls>>

tbvars == <<sources, boxes, sinks, Edges, builtFlag, declarers, result, builds,
           tbcalls>>

callervars == <<history, results, twin, cells>>

vars == <<planvars, tbvars, callervars>>

\* ----------------------------------------------------------------- helpers
Range(s) == {s[i] : i \in 1..Len(s)}

Min(a, b) == IF a < b THEN a ELSE b

RECURSIVE Concat(_)
\* flattens a sequence of sequences
Concat(ss) == IF ss = <<>> THEN <<>> ELSE Head(ss) \o Concat(Tail(ss))

\* the last n elements of s (all of s when it is shorter)
LastN(s, n) == SubSeq(s, Len(s) - Min(n, Len(s)) + 1, Len(s))

\* ---------------------------------------------------------------- data model
\* tuple.Map: a map is a set of <<key, value>> pairs with distinct keys
Keys(m) == {p[1] : p \in m}

HasKey(m, k) == k \in Keys(m)

Get(m, k) == (CHOOSE p \in m : p[1] = k)[2]

\* writing key k overwrites an earlier value of k
Put(m, k, v) == {p \in m : p[1] # k} \cup {<<k, v>>}

\* the data a test tuple carries: {"int": v}, or no int key at all
\* (delete(tuples[1].Data, "int"))
DataSet == {{<<"int", v>>} : v \in 1..MaxInt} \cup {{}}

\* ------------------------------------------------------------ logical plan
In(name, alias, unit, size) ==
    [name |-> name, alias |-> alias, unit |-> unit, size |-> size]

Lit(v) == [op |-> "lit", alias |-> "", key |-> "", v |-> v]

Ref(alias, key) == [op |-> "ref", alias |-> alias, key |-> key, v |-> 0]

\* the wildcard *
Wild == [op |-> "wild", alias |-> "", key |-> "", v |-> 0]

\* a binary operation l f r, f one of + - * % =
Bin(f, l, r) == [op |-> "bin", f |-> f, l |-> l, r |-> r]

\* WHERE is absent
NoFilter == Lit(TRUE)

\* a projection item: expr AS name (name = "" when there is no AS)
Item(name, expr) == [name |-> name, expr |-> expr]

Every(rel, n) == [rel |-> rel, threshold |-> n]

PlanWhere(emitter, cadence, projection, inputs, filter) ==
    [emitter |-> emitter, cadence |-> cadence,
     projection |-> projection, inputs |-> inputs, filter |-> filter]

Plan(emitter, cadence, projection, inputs) ==
    PlanWhere(emitter, cadence, projection, inputs, NoFilter)

Emitters == {"RSTREAM", "ISTREAM", "DSTREAM"}

\* SELECT <emitter> [EVERY 2 TUPLES] int AS a FROM src [RANGE 2 TUPLES]
CountQueries ==
    {Plan(e, c, <<Item("a", Ref("", "int"))>>, <<In("src", "", "TUPLES", 2)>>) :
        e \in Emitters, c \in {<<>>, <<Every("*", 2)>>}}

\* SELECT <emitter> int AS a FROM src [RANGE 1 SECONDS]
TimeQueries ==
    {Plan(e, <<>>, <<Item("a", Ref("", "int"))>>, <<In("src", "", "SECONDS", 1)>>) :
        e \in Emitters}

\* SELECT (ISTREAM | DSTREAM) 2 AS a FROM src [RANGE 2 TUPLES]
ConstantQueries ==
    {Plan(e, <<>>, <<Item("a", Lit(2))>>, <<In("src", "", "TUPLES", 2)>>) :
        e \in {"ISTREAM", "DSTREAM"}}

\* SELECT <emitter> [EVERY 2 TUPLES IN src1, 3 TUPLES IN src2 | EVERY 3 TUPLES IN src2]
\*   x:int AS l, y:int AS r FROM src1 [RANGE 2 TUPLES] AS x, src2 [RANGE 2 TUPLES] AS y
JoinQueries ==
    {Plan(e, c, <<Item("l", Ref("x", "int")), Item("r", Ref("y", "int"))>>,
          <<In("src1", "x", "TUPLES", 2), In("src2", "y", "TUPLES", 2)>>) :
        e \in Emitters,
        c \in {<<>>, <<Every("src1", 2), Every("src2", 3)>>, <<Every("src2", 3)>>}}

\* SELECT RSTREAM [EVERY 2 TUPLES]
\*   x:int AS l, y:int AS r FROM src1 [RANGE 2 TUPLES] AS x, src2 [RANGE 2 TUPLES] AS y
JoinEveryQueries ==
    {Plan("RSTREAM", <<Every("*", 2)>>,
          <<Item("l", Ref("x", "int")), Item("r", Ref("y", "int"))>>,
          <<In("src1", "x", "TUPLES", 2), In("src2", "y", "TUPLES", 2)>>)}

\* (int-1)*2
CalcInt == Bin("*", Bin("-", Ref("", "int"), Lit(1)), Lit(2))

\* the SELECT lists of TestDefaultSelectExecutionPlan:
\*   *  |  *, (int-1)*2 AS int  |  (int-1)*2 AS int, *  |  * AS x, (int-1)*2
\*   2  |  2, int  |  2, src:int  |  int-1 AS a, int AS b
Projections ==
    {<<Item("", Wild)>>,
     <<Item("", Wild), Item("int", CalcInt)>>,
     <<Item("int", CalcInt), Item("", Wild)>>,
     <<Item("x", Wild), Item("", CalcInt)>>,
     <<Item("", Lit(2))>>,
     <<Item("", Lit(2)), Item("", Ref("", "int"))>>,
     <<Item("", Lit(2)), Item("", Ref("src", "int"))>>,
     <<Item("a", Bin("-", Ref("", "int"), Lit(1))), Item("b", Ref("", "int"))>>}

\* SELECT RSTREAM <select list> FROM src [RANGE 1 TUPLES], and
\* SELECT RSTREAM 2, x:int FROM src [RANGE 1 TUPLES] AS x
ProjectionQueries ==
    {Plan("RSTREAM", <<>>, p, <<In("src", "", "TUPLES", 1)>>) : p \in Projections}
        \cup {Plan("RSTREAM", <<>>, <<Item("", Lit(2)), Item("", Ref("x", "int"))>>,
                    <<In("src", "x", "TUPLES", 1)>>)}

\* SELECT RSTREAM int AS b FROM src [RANGE 2 TUPLES] WHERE int % 2 = 0
WhereQueries ==
    {PlanWhere("RSTREAM", <<>>, <<Item("b", Ref("", "int"))>>,
               <<In("src", "", "TUPLES", 2)>>,
               Bin("=", Bin("%", Ref("", "int"), Lit(2)), Lit(0)))}

\* SELECT <emitter> src1:l, src2:r FROM src1 [RANGE 2 TUPLES], src2 [RANGE 2 TUPLES]
\*   WHERE src1:int + 1 = src2:int
WhereJoinQueries ==
    {PlanWhere(e, <<>>, <<Item("", Ref("src1", "l")), Item("", Ref("src2", "r"))>>,
               <<In("src1", "", "TUPLES", 2), In("src2", "", "TUPLES", 2)>>,
               Bin("=", Bin("+", Ref("src1", "int"), Lit(1)), Ref("src2", "int"))) :
        e \in {"RSTREAM", "ISTREAM"}}

\* SELECT RSTREAM 2 % (int - 1) AS a FROM src [RANGE 2 TUPLES] WHERE int % 2 = 0:
\* the projection fails (division by zero) on a tuple whose int is 1, which
\* the predicate rejects
GuardedQueries ==
    {PlanWhere("RSTREAM", <<>>,
               <<Item("a", Bin("%", Lit(2), Bin("-", Ref("", "int"), Lit(1))))>>,
               <<In("src", "", "TUPLES", 2)>>,
               Bin("=", Bin("%", Ref("", "int"), Lit(2)), Lit(0)))}

Queries ==
    CountQueries \cup TimeQueries \cup ConstantQueries \cup JoinQueries
        \cup JoinEveryQueries \cup ProjectionQueries \cup WhereQueries
        \cup WhereJoinQueries \cup GuardedQueries

Names(q) == {q.inputs[i].name : i \in 1..Len(q.inputs)}

InputOf(q, r) == q.inputs[CHOOSE i \in 1..Len(q.inputs) : q.inputs[i].name = r]

\* whether some window of q is a [RANGE d SECONDS] window
HasTimeWindow(q) == \E i \in 1..Len(q.inputs) : q.inputs[i].unit = "SECONDS"

\* the tuples a caller hands to Process (getTuples): the tuple stamped with
\* second s carries {"int": s + 1}. A query with a time window is fed every
\* timestamp, in any order; a query with tuple-count windows, which read no
\* timestamp, is fed one timestamp and every int, and when it reads a single
\* relation also tuples without the int key; the tuples of the join with a
\* join condition carry a column l or r next to int
Tuples(q) ==
    IF HasTimeWindow(q)
    THEN {[input_name |-> n, ts |-> s, data |-> {<<"int", s + 1>>}] :
              n \in Names(q), s \in 0..MaxTs}
    ELSE IF q \in WhereJoinQueries
    THEN {[input_name |-> "src1", ts |-> 0, data |-> {<<"int", v>>, <<"l", 10 + v>>}] :
              v \in 1..MaxInt}
         \cup {[input_name |-> "src2", ts |-> 0, data |-> {<<"int", v>>, <<"r", 20 + v>>}] :
                   v \in 1..MaxInt}
    ELSE {[input_name |-> n, ts |-> 0, data |-> d] :
              n \in Names(q),
              d \in IF Len(q.inputs) > 1 THEN DataSet \ {{}} ELSE DataSet}

\* a tuple that arrives under a name no FROM clause of the queries uses
StrayTuples == {[input_name |-> "other", ts |-> 0, data |-> {<<"int", 1>>}]}

\* ------------------------------------------------------------ window buffer
RECURSIVE dropHead(_, _)
\* Count(n): while len > n, drop from the head
dropHead(buf, n) == IF Len(buf) > n THEN dropHead(Tail(buf), n) ELSE buf

\* a window that keeps one tuple too many
admitCountOffByOne(buf, t, n) == dropHead(Append(buf, t), n + 1)

\* [RANGE n TUPLES]: append at the tail, keep the n most recent
admitCount(buf, t, n) == dropHead(Append(buf, t), n)

\* a retention predicate that keeps tuples one second too long
retainedLate(x, t, d) == x.ts >= t.ts - d - 1

\* the retention predicate of a Time(d) window: a tuple is dropped when its
\* event timestamp is strictly less than t_new - d
retained(x, t, d) == x.ts >= t.ts - d

\* [RANGE d SECONDS]: append at the tail, drop every tuple that is too old for
\* the timestamp the new tuple carries
admitTime(buf, t, d) == SelectSeq(Append(buf, t), LAMBDA x : retained(x, t, d))

admit(w, buf, t) ==
    IF w.unit = "TUPLES" THEN admitCount(buf, t, w.size)
    ELSE admitTime(buf, t, w.size)

\* --------------------------------------------------------- relation composer
\* a composer that pairs the i-th tuple of every window instead of crossing them
composeZip(ws) ==
    IF ws = <<>> THEN << <<>> >>
    ELSE LET n == CHOOSE m \in 0..Len(ws[1]) :
                      /\ \A k \in 1..Len(ws) : m <= Len(ws[k])
                      /\ \E k \in 1..Len(ws) : m = Len(ws[k])
         IN [i \in 1..n |-> [k \in 1..Len(ws) |-> ws[k][i].data]]

RECURSIVE composeInnerFirst(_)
\* a composer whose first window is the innermost loop
composeInnerFirst(ws) ==
    IF ws = <<>> THEN << <<>> >>
    ELSE LET inner == composeInnerFirst(Tail(ws))
         IN Concat([j \in 1..Len(inner) |->
                      [i \in 1..Len(Head(ws)) |-> <<Head(ws)[i].data>> \o inner[j]]])

RECURSIVE compose(_)
\* the row-bindings of the windows ws: the first window is the outermost loop,
\* the last one the innermost; a binding holds one tuple's data per window
compose(ws) ==
    IF ws = <<>> THEN << <<>> >>
    ELSE LET inner == compose(Tail(ws))
         IN Concat([i \in 1..Len(Head(ws)) |->
                      [j \in 1..Len(inner) |-> <<Head(ws)[i].data>> \o inner[j]]])

snapshot(q, bufs) == compose([i \in 1..Len(q.inputs) |-> bufs[q.inputs[i].name]])

\* -------------------------------------------------------------- expressions
Value(v) == [ok |-> TRUE, v |-> v, e |-> "none"]

Failure(e) == [ok |-> FALSE, v |-> 0, e |-> e]

\* the sides of the binding an alias names: the relation's alias or its name
sidesOf(q, alias) ==
    {i \in 1..Len(q.inputs) : alias \in {q.inputs[i].alias, q.inputs[i].name}}

evalRef(q, binding, alias, key) ==
    IF alias # ""
    THEN IF sidesOf(q, alias) = {} THEN Failure("UnknownRelation")
         ELSE LET i == CHOOSE i \in sidesOf(q, alias) : TRUE
              IN IF HasKey(binding[i], key) THEN Value(Get(binding[i], key))
                 ELSE Failure("MissingColumn")
    ELSE LET has == {i \in 1..Len(binding) : HasKey(binding[i], key)}
         IN IF has = {} THEN Failure("MissingColumn")
            ELSE IF Cardinality(has) > 1 THEN Failure("Ambiguous")
            ELSE Value(Get(binding[CHOOSE i \in has : TRUE], key))

\* all columns of the binding as one map; a later side overwrites an earlier one
RECURSIVE mergeSides(_, _)
mergeSides(binding, n) ==
    IF n = 0 THEN {}
    ELSE {p \in mergeSides(binding, n - 1) : ~HasKey(binding[n], p[1])} \cup binding[n]

\* the result of the binary operator f on two values
applyBin(f, a, b) ==
    IF f = "+" THEN Value(a + b)
    ELSE IF f = "-" THEN Value(a - b)
    ELSE IF f = "*" THEN Value(a * b)
    ELSE IF f = "%" THEN (IF b = 0 THEN Failure("ArithError") ELSE Value(a % b))
    ELSE Value(a = b)

RECURSIVE eval(_, _, _)
eval(q, binding, expr) ==
    IF expr.op = "lit" THEN Value(expr.v)
    ELSE IF expr.op = "wild" THEN Value(mergeSides(binding, Len(binding)))
    ELSE IF expr.op = "bin"
    THEN LET a == eval(q, binding, expr.l)
         IN IF ~a.ok THEN a
            ELSE LET b == eval(q, binding, expr.r)
                 IN IF ~b.ok THEN b ELSE applyBin(expr.f, a.v, b.v)
    ELSE evalRef(q, binding, expr.alias, expr.key)

\* ---------------------------------------------------------------- projection
ColName(n) == IF n = 1 THEN "col_1" ELSE IF n = 2 THEN "col_2" ELSE "col_3"

\* an output key that numbers every item without AS, column references too
outputKeyNumbered(item, n) == IF item.name # "" THEN item.name ELSE ColName(n)

\* an output key that numbers the items from 0
outputKeyZeroBased(item, n) ==
    IF item.name # "" THEN item.name
    ELSE IF item.expr.op = "ref" THEN item.expr.key
    ELSE IF n = 1 THEN "col_0" ELSE ColName(n - 1)

\* the output key of the n-th projection item: its AS name, the column's own
\* name for a bare column reference, col_n for any other expression
outputKey(item, n) ==
    IF item.name # "" THEN item.name
    ELSE IF item.expr.op = "ref" THEN item.expr.key
    ELSE ColName(n)

RECURSIVE applyItems(_, _, _, _)
\* the items from position n on, applied left to right to the row so far
\* a write that keeps the value an earlier item wrote under the same key
writeItemFirstWins(row, item, n, v) ==
    IF item.expr.op = "wild" /\ item.name = ""
    THEN row \cup {p \in v : ~HasKey(row, p[1])}
    ELSE IF HasKey(row, outputKey(item, n)) THEN row
    ELSE Put(row, outputKey(item, n), v)

\* the row after item n wrote value v: a bare * writes every column of the
\* input under its own key, any other item writes v under its output key
writeItem(row, item, n, v) ==
    IF item.expr.op = "wild" /\ item.name = ""
    THEN {p \in row : ~HasKey(v, p[1])} \cup v
    ELSE Put(row, outputKey(item, n), v)

applyItems(q, binding, n, row) ==
    IF n > Len(q.projection) THEN [ok |-> TRUE, row |-> row, e |-> "none"]
    ELSE LET item == q.projection[n]
             r == eval(q, binding, item.expr)
         IN IF ~r.ok THEN [ok |-> FALSE, row |-> {}, e |-> r.e]
            ELSE applyItems(q, binding, n + 1, writeItem(row, item, n, r.v))

project(q, binding) == applyItems(q, binding, 1, {})

\* a row evaluation that ignores the WHERE predicate
rowOfUnfiltered(q, binding) ==
    LET r == project(q, binding)
    IN [ok |-> r.ok, keep |-> r.ok, row |-> r.row, e |-> r.e]

\* a row evaluation that projects the binding before it asks the predicate
rowOfProjectFirst(q, binding) ==
    LET r == project(q, binding)
        f == eval(q, binding, q.filter)
    IN IF ~r.ok THEN [ok |-> FALSE, keep |-> FALSE, row |-> {}, e |-> r.e]
       ELSE IF ~f.ok THEN [ok |-> FALSE, keep |-> FALSE, row |-> {}, e |-> f.e]
       ELSE IF f.v # TRUE THEN [ok |-> TRUE, keep |-> FALSE, row |-> {}, e |-> "none"]
       ELSE [ok |-> TRUE, keep |-> TRUE, row |-> r.row, e |-> "none"]

\* the row of one binding: WHERE is evaluated on the binding, and only a
\* binding whose predicate is true is projected; keep tells whether the
\* binding contributes its row
rowOf(q, binding) ==
    LET f == eval(q, binding, q.filter)
    IN IF ~f.ok THEN [ok |-> FALSE, keep |-> FALSE, row |-> {}, e |-> f.e]
       ELSE IF f.v # TRUE THEN [ok |-> TRUE, keep |-> FALSE, row |-> {}, e |-> "none"]
       ELSE LET r == project(q, binding)
            IN [ok |-> r.ok, keep |-> r.ok, row |-> r.row, e |-> r.e]

RECURSIVE evalRows(_, _)
\* one row per binding, in the order of the bindings; the first failing
\* evaluation discards the rows collected so far
evalRows(q, bindings) ==
    IF bindings = <<>> THEN [ok |-> TRUE, rows |-> <<>>, e |-> "none"]
    ELSE LET r == rowOf(q, Head(bindings))
         IN IF ~r.ok THEN [ok |-> FALSE, rows |-> <<>>, e |-> r.e]
            ELSE LET rest == evalRows(q, Tail(bindings))
                 IN IF ~rest.ok THEN rest
                    ELSE IF r.keep THEN [rest EXCEPT !.rows = <<r.row>> \o @]
                    ELSE rest

\* the current relation C: the rows of the windows' contents
performQueryOnBuffer(q, bufs) == evalRows(q, snapshot(q, bufs))

\* ------------------------------------------------------------ cadence gate
Listed(cadence) == {cadence[i].rel : i \in 1..Len(cadence)}

Threshold(cadence, r) ==
    cadence[CHOOSE i \in 1..Len(cadence) : cadence[i].rel = r].threshold

\* a gate that asks every listed relation's count to be a multiple of its threshold
shouldEmitAll(cadence, counts, r) ==
    \A i \in 1..Len(cadence) : counts[cadence[i].rel] % cadence[i].threshold = 0

\* a gate that reads the count as it was before the admission
shouldEmitBefore(cadence, counts, r) ==
    IF cadence = <<>> THEN TRUE
    ELSE IF "*" \in Listed(cadence)
    THEN (counts["*"] - 1) % Threshold(cadence, "*") = 0
    ELSE IF r \in Listed(cadence)
    THEN (counts[r] - 1) % Threshold(cadence, r) = 0
    ELSE FALSE

\* whether the admission of a tuple of relation r fires a cycle, counts being
\* the arrival counts after that admission
shouldEmitNow(cadence, counts, r) ==
    IF cadence = <<>> THEN TRUE
    ELSE IF "*" \in Listed(cadence)
    THEN counts["*"] % Threshold(cadence, "*") = 0
    ELSE IF r \in Listed(cadence)
    THEN counts[r] % Threshold(cadence, r) = 0
    ELSE FALSE

\* ------------------------------------------------------------------ emitters
RECURSIVE removeOne(_, _)
\* rows without its first occurrence of row
removeOne(rows, row) ==
    IF rows = <<>> THEN <<>>
    ELSE IF Head(rows) = row THEN Tail(rows)
    ELSE <<Head(rows)>> \o removeOne(Tail(rows), row)

RECURSIVE multisetDifference(_, _)
\* the multiset difference left \ right in the order of left: each row of
\* right cancels one equal row of left
multisetDifference(left, right) ==
    IF left = <<>> THEN <<>>
    ELSE IF Head(left) \in Range(right)
    THEN multisetDifference(Tail(left), removeOne(right, Head(left)))
    ELSE <<Head(left)>> \o multisetDifference(Tail(left), right)

\* the rows of left that are equal to no row of right, in the order of left
difference(left, right) == SelectSeq(left, LAMBDA row : row \notin Range(right))

\* ISTREAM and DSTREAM with their operands exchanged
computeResultTuplesSwapped(emitter, cur, prev) ==
    IF emitter = "RSTREAM" THEN cur
    ELSE IF emitter = "ISTREAM" THEN difference(prev, cur)
    ELSE difference(cur, prev)

\* an RSTREAM that leaves out what the previous cycle produced
computeResultTuplesNewOnly(emitter, cur, prev) ==
    IF emitter = "DSTREAM" THEN difference(prev, cur)
    ELSE difference(cur, prev)

\* a DSTREAM that emits the previous result whole
computeResultTuplesAllOld(emitter, cur, prev) ==
    IF emitter = "RSTREAM" THEN cur
    ELSE IF emitter = "ISTREAM" THEN difference(cur, prev)
    ELSE prev

\* relation-to-stream: cur is this cycle's result, prev the previous one
computeResultTuples(emitter, cur, prev) ==
    IF emitter = "RSTREAM" THEN cur
    ELSE IF emitter = "ISTREAM" THEN difference(cur, prev)
    ELSE difference(prev, cur)

\* ---------------------------------------------------------------- plan driver
\* the value of a tuple: its input name, its timestamp and its data, without
\* the storage cell (ref) the caller keeps it in
Plain(t) == [input_name |-> t.input_name, ts |-> t.ts, data |-> t.data]

\* a copy that keeps pointing at the storage of the original
CopyShallow(t) == t

\* tuple.Copy: a tuple with equal metadata and equal values, in storage of
\* its own
Copy(t) == [input_name |-> t.input_name, ts |-> t.ts, data |-> t.data]

NoTuple == [input_name |-> "", ts |-> 0, data |-> {}]

\* the plan's own state
PlanState(bufs, counts, prev) ==
    [buffers |-> bufs, arrival_counts |-> counts, prev_output |-> prev]

\* the plan NewDefaultSelectExecutionPlan returns for query q
NewPlan(q) ==
    /\ query = q
    /\ buffers = [r \in Names(query) |-> <<>>]
    /\ arrival_counts = [r \in Names(query) \cup {"*"} |-> 0]
    /\ prev_output = <<>>
    /\ out = <<>>
    /\ err = "none"
    /\ fired = FALSE
    /\ lastTuple = NoTuple
    /\ lastPrev = <<>>
    /\ admitted = [r \in Names(query) |-> <<>>]
    /\ ordered = TRUE
    /\ cycles = 0
    /\ admissions = 0
    /\ lastGood = <<>>
    /\ calls = 0

\* no call has returned anything yet
NoResult == [op |-> "", args |-> <<>>, err |-> "none", st |-> {}]

\* the builder NewDefaultStaticTopologyBuilder returns
NewDefaultStaticTopologyBuilder ==
    /\ sources = {}
    /\ boxes = {}
    /\ sinks = {}
    /\ Edges = <<>>
    /\ builtFlag = FALSE
    /\ declarers = <<>>
    /\ result = NoResult
    /\ builds = <<>>
    /\ tbcalls = 0

\* a caller that has handed over nothing yet, with a second plan for query q
NewCaller(q) ==
    /\ history = <<>>
    /\ results = <<>>
    /\ twin = [state |-> PlanState([r \in Names(q) |-> <<>>],
                                   [r \in Names(q) \cup {"*"} |-> 0], <<>>),
               results |-> <<>>]
    /\ cells = <<>>

Init ==
    /\ \E q \in Queries : NewPlan(q) /\ NewCaller(q)
    /\ NewDefaultStaticTopologyBuilder

\* what a Process call returns, and the state it leaves
Outcome(st, rows, e, fire) ==
    [state |-> st, out |-> rows, err |-> e, fired |-> fire]

\* a Process that remembers the window's rows as prev_output on a skipped cycle
processRememberingSkipped(q, st, t) ==
    LET r == t.input_name
        bufs == [st.buffers EXCEPT ![r] = admit(InputOf(q, r), @, Copy(t))]
        counts == [st.arrival_counts EXCEPT ![r] = @ + 1, !["*"] = @ + 1]
        fire == shouldEmitNow(q.cadence, counts, r)
        cur == performQueryOnBuffer(q, bufs)
    IN IF r \notin Names(q) THEN Outcome(st, <<>>, "UnknownInput", FALSE)
       ELSE IF ~cur.ok THEN Outcome(PlanState(bufs, counts, st.prev_output), <<>>,
                               IF fire THEN cur.e ELSE "none", fire)
       ELSE Outcome(PlanState(bufs, counts, cur.rows),
                    IF fire
                    THEN computeResultTuples(q.emitter, cur.rows, st.prev_output)
                    ELSE <<>>,
                    "none", fire)

\* a rejection that still counts the tuple as an arrival
rejectUnknownCounting(st) ==
    Outcome([st EXCEPT !.arrival_counts["*"] = @ + 1], <<>>, "UnknownInput", FALSE)

\* no window buffer matches the tuple's input name: the call fails with
\* UnknownInput before anything is admitted or counted
rejectUnknown(st) == Outcome(st, <<>>, "UnknownInput", FALSE)

RECURSIVE rowsBeforeFailure(_, _)
\* the rows of the bindings that evaluate before the first failing one
rowsBeforeFailure(q, bindings) ==
    IF bindings = <<>> THEN <<>>
    ELSE LET r == rowOf(q, Head(bindings))
         IN IF ~r.ok THEN <<>>
            ELSE IF r.keep THEN <<r.row>> \o rowsBeforeFailure(q, Tail(bindings))
            ELSE rowsBeforeFailure(q, Tail(bindings))

\* a Process that returns the rows collected before the evaluation failed
processPartialRows(q, st, t) ==
    LET r == t.input_name
        bufs == [st.buffers EXCEPT ![r] = admit(InputOf(q, r), @, Copy(t))]
        counts == [st.arrival_counts EXCEPT ![r] = @ + 1, !["*"] = @ + 1]
        fire == shouldEmitNow(q.cadence, counts, r)
        cur == performQueryOnBuffer(q, bufs)
        kept == PlanState(bufs, counts, st.prev_output)
    IN IF r \notin Names(q) THEN rejectUnknown(st)
       ELSE IF ~fire THEN Outcome(kept, <<>>, "none", FALSE)
       ELSE IF ~cur.ok
            THEN Outcome(kept, rowsBeforeFailure(q, snapshot(q, bufs)), cur.e, TRUE)
       ELSE Outcome(PlanState(bufs, counts, cur.rows),
                    computeResultTuples(q.emitter, cur.rows, st.prev_output),
                    "none", TRUE)

\* a Process that forgets the previous result when the evaluation fails
processForgettingOnError(q, st, t) ==
    LET r == t.input_name
        bufs == [st.buffers EXCEPT ![r] = admit(InputOf(q, r), @, Copy(t))]
        counts == [st.arrival_counts EXCEPT ![r] = @ + 1, !["*"] = @ + 1]
        fire == shouldEmitNow(q.cadence, counts, r)
        cur == performQueryOnBuffer(q, bufs)
        kept == PlanState(bufs, counts, st.prev_output)
    IN IF r \notin Names(q) THEN rejectUnknown(st)
       ELSE IF ~fire THEN Outcome(kept, <<>>, "none", FALSE)
       ELSE IF ~cur.ok THEN Outcome(PlanState(bufs, counts, <<>>), <<>>, cur.e, TRUE)
       ELSE Outcome(PlanState(bufs, counts, cur.rows),
                    computeResultTuples(q.emitter, cur.rows, st.prev_output),
                    "none", TRUE)

\* a Process that undoes the admission when the evaluation fails
processRollingBack(q, st, t) ==
    LET r == t.input_name
        bufs == [st.buffers EXCEPT ![r] = admit(InputOf(q, r), @, Copy(t))]
        counts == [st.arrival_counts EXCEPT ![r] = @ + 1, !["*"] = @ + 1]
        fire == shouldEmitNow(q.cadence, counts, r)
        cur == performQueryOnBuffer(q, bufs)
        kept == PlanState(bufs, counts, st.prev_output)
    IN IF r \notin Names(q) THEN rejectUnknown(st)
       ELSE IF ~fire THEN Outcome(kept, <<>>, "none", FALSE)
       ELSE IF ~cur.ok THEN Outcome(st, <<>>, cur.e, TRUE)
       ELSE Outcome(PlanState(bufs, counts, cur.rows),
                    computeResultTuples(q.emitter, cur.rows, st.prev_output),
                    "none", TRUE)

\* a plan whose gate reads the counters of the plan held in the variables,
\* as if the counters were shared by every instance
processSharingCounts(q, st, t) ==
    LET r == t.input_name
        bufs == [st.buffers EXCEPT ![r] = admit(InputOf(q, r), @, Copy(t))]
        counts == [arrival_counts EXCEPT ![r] = @ + 1, !["*"] = @ + 1]
        fire == shouldEmitNow(q.cadence, counts, r)
        cur == performQueryOnBuffer(q, bufs)
        kept == PlanState(bufs, counts, st.prev_output)
    IN IF r \notin Names(q) THEN rejectUnknown(st)
       ELSE IF ~fire THEN Outcome(kept, <<>>, "none", FALSE)
       ELSE IF ~cur.ok THEN Outcome(kept, <<>>, cur.e, TRUE)
       ELSE Outcome(PlanState(bufs, counts, cur.rows),
                    computeResultTuples(q.emitter, cur.rows, st.prev_output),
                    "none", TRUE)

\* plan.Process(t) on a plan in state st: admit a copy and count, gate,
\* evaluate, emit. A skipped cycle and a failed evaluation return no row and
\* keep prev_output; the admission is never undone.
process(q, st, t) ==
    LET r == t.input_name
        bufs == [st.buffers EXCEPT ![r] = admit(InputOf(q, r), @, Copy(t))]
        counts == [st.arrival_counts EXCEPT ![r] = @ + 1, !["*"] = @ + 1]
        fire == shouldEmitNow(q.cadence, counts, r)
        cur == performQueryOnBuffer(q, bufs)
        kept == PlanState(bufs, counts, st.prev_output)
    IN IF r \notin Names(q) THEN rejectUnknown(st)
       ELSE IF ~fire THEN Outcome(kept, <<>>, "none", FALSE)
       ELSE IF ~cur.ok THEN Outcome(kept, <<>>, cur.e, TRUE)
       ELSE Outcome(PlanState(bufs, counts, cur.rows),
                    computeResultTuples(q.emitter, cur.rows, st.prev_output),
                    "none", TRUE)

\* a caller hands tuple t to plan.Process
Process(t) ==
    \E res \in {process(query, PlanState(buffers, arrival_counts, prev_output), t)} :
       /\ calls < MaxSteps
       /\ calls' = calls + 1
       /\ lastTuple' = t
       /\ lastPrev' = prev_output
       /\ lastGood' = IF res.fired /\ res.err = "none"
                      THEN performQueryOnBuffer(query, res.state.buffers).rows
                      ELSE lastGood
       /\ admissions' = IF res.err = "UnknownInput" THEN admissions ELSE admissions + 1
       /\ admitted' = IF res.err = "UnknownInput" THEN admitted
                      ELSE [admitted EXCEPT ![t.input_name] =
                               LastN(Append(@, Plain(t)),
                                     InputOf(query, t.input_name).size + 1)]
       /\ ordered' = IF res.err = "UnknownInput" THEN ordered
                     ELSE (ordered /\ (admitted[t.input_name] = <<>>
                             \/ t.ts >= admitted[t.input_name][Len(admitted[t.input_name])].ts))
       /\ cycles' = IF res.fired /\ res.err = "none" THEN cycles + 1 ELSE cycles
       /\ buffers' = res.state.buffers
       /\ arrival_counts' = res.state.arrival_counts
       /\ prev_output' = res.state.prev_output
       /\ out' = res.out
       /\ err' = res.err
       /\ fired' = res.fired
       /\ UNCHANGED <<query, tbvars>>

\* a caller hands tuple t to the plan and keeps no reference to it
Submit(t) == Process(t) /\ UNCHANGED callervars

Next == \E t \in Tuples(query) \cup StrayTuples : Submit(t)

Spec == Init /\ [][Next]_vars

\* ------------------------------------------------------------------ two plans
\* the RSTREAM statements two plans are built from
TwinQueries ==
    {q \in CountQueries \cup TimeQueries \cup JoinEveryQueries :
        q.emitter = "RSTREAM"}

\* what a Process call returned
Result(rows, e) == [out |-> rows, err |-> e]

\* the caller hands tuple t to the first plan and records it
Feed(t) ==
    /\ Process(t)
    /\ history' = Append(history, t)
    /\ results' = Append(results, Result(out', err'))
    /\ UNCHANGED <<twin, cells>>

\* the second plan is handed the next tuple of the same input sequence
TwinProcess ==
    /\ Len(twin.results) < Len(history)
    /\ \E res \in {process(query, twin.state, history[Len(twin.results) + 1])} :
          twin' = [state |-> res.state,
                   results |-> Append(twin.results, Result(res.out, res.err))]
    /\ UNCHANGED <<planvars, tbvars, history, results, cells>>

TwinInit ==
    /\ \E q \in TwinQueries : NewPlan(q) /\ NewCaller(q)
    /\ NewDefaultStaticTopologyBuilder

TwinNext ==
    \/ \E t \in Tuples(query) \cup StrayTuples : Feed(t)
    \/ TwinProcess

TwinSpec == TwinInit /\ [][TwinNext]_vars

\* ------------------------------------------------------- the caller's tuples
\* the statements of the plans whose caller keeps its tuples
CopyQueries == CountQueries

\* the tuple the caller handed over last, which it keeps: the data it was
\* handed over with, the data it holds now, and whether the caller had
\* overwritten the tuple it handed over before this one
Cell(given, data, prior) == [given |-> given, data |-> data, prior |-> prior]

\* the tuples of a buffer after the caller wrote data d into the tuple of
\* call i: a tuple that shares its storage has the new data
written(buf, i, d) ==
    [k \in 1..Len(buf) |->
        IF "ref" \in DOMAIN buf[k] /\ buf[k].ref = i
        THEN [buf[k] EXCEPT !.data = d] ELSE buf[k]]

\* the caller has overwritten the tuple it keeps
Overwritten == cells # <<>> /\ cells[1].data # cells[1].given

\* the caller hands over a newly made tuple and keeps it
ProcessKept(t) ==
    /\ Process([input_name |-> t.input_name, ts |-> t.ts, data |-> t.data,
                ref |-> calls + 1])
    /\ cells' = <<Cell(t.data, t.data, Overwritten)>>
    /\ UNCHANGED <<history, results, twin>>

\* after Process has returned, the caller overwrites the data of the tuple
\* it keeps
Mutate(d) ==
    /\ cells # <<>>
    /\ ~Overwritten
    /\ cells[1].data # d
    /\ cells' = <<Cell(cells[1].given, d, cells[1].prior)>>
    /\ buffers' = [r \in DOMAIN buffers |-> written(buffers[r], calls, d)]
    /\ UNCHANGED <<query, arrival_counts, prev_output, out, err, fired, lastTuple,
                   lastPrev, admitted, ordered, cycles, admissions, lastGood,
                   calls, tbvars, history, results, twin>>

CopyInit ==
    /\ \E q \in CopyQueries : NewPlan(q) /\ NewCaller(q)
    /\ NewDefaultStaticTopologyBuilder

CopyNext ==
    \/ \E t \in Tuples(query) : ProcessKept(t)
    \/ \E d \in DataSet : Mutate(d)

CopySpec == CopyInit /\ [][CopyNext]_vars

\* --------------------------------------------------------- topology builder
\* the names the callers use for sources, boxes and sinks
NodeNames == {"a", "b"}

\* a box without an input schema, and a SchemafulBox whose InputSchema
\* declares the one input name "x"
BoxKinds == {"schemaless", "schemaful"}

\* the input names handed to NamedInput; Input passes "*"
InputNames == {"*", "x"}

dataflowEdge(from, to, inputName) == [From |-> from, To |-> to, InputName |-> inputName]

\* the declarer an Add call returns: tb is FALSE when the builder pointer is
\* left nil, box is "" for a sink
Declarer(kind, tb, name, box, e) ==
    [kind |-> kind, tb |-> tb, name |-> name, box |-> box, err |-> e]

\* a call and what it returns: the method, its arguments (for a declarer's
\* method the declarer comes first), its error ("none" for nil) and the
\* topology, if any
Returned(op, args, e, st) == [op |-> op, args |-> args, err |-> e, st |-> st]

\* a name check that looks at the sources only
checkNameSourcesOnly(name) ==
    IF name \in sources THEN "there is already a source" ELSE "none"

\* whether the name is free: not yet used by a source, a box or a sink
checkName(name) ==
    IF name \in sources THEN "there is already a source"
    ELSE IF HasKey(boxes, name) THEN "there is already a box"
    ELSE IF name \in sinks THEN "there is already a sink"
    ELSE "none"

\* a reference check that accepts every registered name, sinks too
IsValidOutputReferenceAnyNode(name) ==
    name \in sources \/ HasKey(boxes, name) \/ name \in sinks

\* the name is an existing box or source
IsValidOutputReference(name) == name \in sources \/ HasKey(boxes, name)

\* an Add call that does not look at builtFlag
addErrorIgnoringBuilt(name) == checkName(name)

\* the error an Add call starts with
addError(name) == IF builtFlag THEN "already built" ELSE checkName(name)

AddSource(name) ==
    LET e == addError(name)
    IN /\ tbcalls < MaxCalls
       /\ tbcalls' = tbcalls + 1
       /\ sources' = IF e = "none" THEN sources \cup {name} ELSE sources
       /\ result' = Returned("AddSource", <<name>>, e, {})
       /\ UNCHANGED <<boxes, sinks, Edges, builtFlag, declarers, builds,
                      planvars, callervars>>

AddBox(name, box) ==
    LET e == addError(name)
    IN /\ tbcalls < MaxCalls
       /\ tbcalls' = tbcalls + 1
       /\ boxes' = IF e = "none" THEN Put(boxes, name, box) ELSE boxes
       /\ declarers' = Append(declarers,
                              IF e = "none" THEN Declarer("box", TRUE, name, box, "none")
                              ELSE Declarer("box", FALSE, "", "", e))
       /\ result' = Returned("AddBox", <<name>>, e, {})
       /\ UNCHANGED <<sources, sinks, Edges, builtFlag, builds,
                      planvars, callervars>>

AddSink(name) ==
    LET e == addError(name)
    IN /\ tbcalls < MaxCalls
       /\ tbcalls' = tbcalls + 1
       /\ sinks' = IF e = "none" THEN sinks \cup {name} ELSE sinks
       /\ declarers' = Append(declarers,
                              IF e = "none" THEN Declarer("sink", TRUE, name, "", "none")
                              ELSE Declarer("sink", FALSE, "", "", e))
       /\ result' = Returned("AddSink", <<name>>, e, {})
       /\ UNCHANGED <<sources, boxes, Edges, builtFlag, builds,
                      planvars, callervars>>

\* whether the box accepts tuples under inputName: a schemaless box accepts
\* every name, a schemaful one the names of its schema (here "x") or "*" when
\* the schema declares "*" (here it does not)
checkInput(bd, inputName) ==
    IF bd.box = "schemaless" THEN "none"
    ELSE IF inputName = "x" THEN "none"
    ELSE "input name isn't defined in the box"

\* the duplicate check of Input and NamedInput: the loop over tb.Edges
\* compares the first edge and breaks
edgeAlreadyExists(edge) == IF Edges = <<>> THEN FALSE ELSE edge = Edges[1]

\* a declarer that forgets the error of an earlier failed Input; a declarer
\* of a failed Add call has no builder and keeps its error
inputErrorForgetting(d, refname, inputName) ==
    IF ~d.tb THEN d.err
    ELSE IF ~IsValidOutputReference(refname) THEN "there is no box or source"
    ELSE IF d.kind = "box" /\ checkInput(d, inputName) # "none" THEN checkInput(d, inputName)
    ELSE IF edgeAlreadyExists(dataflowEdge(refname, d.name, inputName)) THEN "already connected"
    ELSE "none"

\* the error a declarer holds after connecting refname to it
inputError(d, refname, inputName) ==
    IF d.err # "none" THEN d.err
    ELSE IF ~IsValidOutputReference(refname) THEN "there is no box or source"
    ELSE IF d.kind = "box" /\ checkInput(d, inputName) # "none" THEN checkInput(d, inputName)
    ELSE IF edgeAlreadyExists(dataflowEdge(refname, d.name, inputName)) THEN "already connected"
    ELSE "none"

\* the body shared by the Input methods: declarer i connects refname to its
\* node; nothing happens on a declarer that holds an error
connect(op, i, refname, inputName) ==
    LET d == declarers[i]
        e == inputError(d, refname, inputName)
    IN /\ tbcalls < MaxCalls
       /\ tbcalls' = tbcalls + 1
       /\ Edges' = IF e = "none"
                   THEN Append(Edges, dataflowEdge(refname, d.name, inputName))
                   ELSE Edges
       /\ declarers' = [declarers EXCEPT ![i].err = e]
       /\ result' = Returned(op, <<i, refname, inputName>>, e, {})
       /\ UNCHANGED <<sources, boxes, sinks, builtFlag, builds,
                      planvars, callervars>>

\* defaultBoxDeclarer.NamedInput
NamedInput(i, refname, inputName) ==
    /\ declarers[i].kind = "box"
    /\ connect("NamedInput", i, refname, inputName)

\* defaultBoxDeclarer.Input
BoxInput(i, refname) ==
    /\ declarers[i].kind = "box"
    /\ connect("Input", i, refname, "*")

\* defaultSinkDeclarer.Input
SinkInput(i, refname) ==
    /\ declarers[i].kind = "sink"
    /\ connect("Input", i, refname, "output")

RECURSIVE adj(_, _)
\* adj[node] of hasCycle: the ends of the edges that start at node, in order
adj(es, node) ==
    IF es = <<>> THEN <<>>
    ELSE (IF Head(es).From = node THEN <<Head(es).To>> ELSE <<>>) \o adj(Tail(es), node)

RECURSIVE detectCycle(_, _)
RECURSIVE detectCycleIn(_, _)
\* the loop of detectCycle over adj[node]
detectCycleIn(ns, visited) ==
    IF ns = <<>> THEN [found |-> FALSE, visited |-> visited]
    ELSE LET r == detectCycle(Head(ns), visited)
         IN IF r.found THEN r ELSE detectCycleIn(Tail(ns), r.visited)

\* depth-first search from node; visited is 0: not yet, 1: visiting, 2: visited
detectCycle(node, visited) ==
    IF visited[node] = 1 THEN [found |-> TRUE, visited |-> visited]
    ELSE IF visited[node] = 2 THEN [found |-> FALSE, visited |-> visited]
    ELSE LET r == detectCycleIn(adj(Edges, node), [visited EXCEPT ![node] = 1])
         IN IF r.found THEN r
            ELSE [found |-> FALSE, visited |-> [r.visited EXCEPT ![node] = 2]]

RECURSIVE detectFrom(_, _)
\* the loop of hasCycle over tb.sources, the searches sharing visited
detectFrom(ss, visited) ==
    IF ss = {} THEN FALSE
    ELSE LET s == CHOOSE x \in ss : TRUE
             r == detectCycle(s, visited)
         IN r.found \/ detectFrom(ss \ {s}, r.visited)

\* whether a search that starts at the sources meets a cycle
hasCycle == detectFrom(sources, [n \in NodeNames |-> 0])

\* the nodes Build creates an entry of st.nodes for, and those it creates
\* destinations for
nodes == Keys(boxes) \cup sinks

dsts == sources \cup Keys(boxes)

\* a Build that does not look at builtFlag
buildErrorIgnoringFlag ==
    IF sources = {} THEN "there must be at least one source"
    ELSE IF hasCycle THEN "the topology has a cycle"
    ELSE IF \E i \in 1..Len(Edges) : Edges[i].To \notin nodes \/ Edges[i].From \notin dsts
    THEN "panic"
    ELSE "none"

\* the error Build returns; connecting a pipe to a node or a destination that
\* does not exist is a nil dereference
buildError ==
    IF builtFlag THEN "already built"
    ELSE IF sources = {} THEN "there must be at least one source"
    ELSE IF hasCycle THEN "the topology has a cycle"
    ELSE IF \E i \in 1..Len(Edges) : Edges[i].To \notin nodes \/ Edges[i].From \notin dsts
    THEN "panic"
    ELSE "none"

\* the topology Build returns
defaultStaticTopology ==
    [srcs |-> sources, boxes |-> boxes, sinks |-> sinks, pipes |-> Edges]

\* a Build that marks the builder as built also when it fails
BuildMarkingAlways ==
    LET e == buildError
    IN /\ tbcalls < MaxCalls
       /\ tbcalls' = tbcalls + 1
       /\ builtFlag' = TRUE
       /\ result' = Returned("Build", <<>>, e,
                           IF e = "none" THEN {defaultStaticTopology} ELSE {})
       /\ builds' = Append(builds, e)
       /\ UNCHANGED <<sources, boxes, sinks, Edges, declarers,
                      planvars, callervars>>

Build ==
    LET e == buildError
    IN /\ tbcalls < MaxCalls
       /\ tbcalls' = tbcalls + 1
       /\ builtFlag' = IF e = "none" THEN TRUE ELSE builtFlag
       /\ result' = Returned("Build", <<>>, e,
                           IF e = "none" THEN {defaultStaticTopology} ELSE {})
       /\ builds' = Append(builds, e)
       /\ UNCHANGED <<sources, boxes, sinks, Edges, declarers,
                      planvars, callervars>>

BuilderNext ==
    \/ \E name \in NodeNames : AddSource(name)
    \/ \E name \in NodeNames, box \in BoxKinds : AddBox(name, box)
    \/ \E name \in NodeNames : AddSink(name)
    \/ \E i \in 1..Len(declarers), refname \in NodeNames, inputName \in InputNames :
           NamedInput(i, refname, inputName)
    \/ \E i \in 1..Len(declarers), refname \in NodeNames : BoxInput(i, refname)
    \/ \E i \in 1..Len(declarers), refname \in NodeNames : SinkInput(i, refname)
    \/ Build

\* the builder on its own, next to a plan that is never called
BuilderInit ==
    /\ LET q == CHOOSE c \in ConstantQueries : TRUE IN NewPlan(q) /\ NewCaller(q)
    /\ NewDefaultStaticTopologyBuilder

BuilderSpec == BuilderInit /\ [][BuilderNext]_vars

\* ------------------------------------------------------------------- claims
\* the rows the windows hold now: the result C of a cycle that has just run
Cur == performQueryOnBuffer(query, buffers).rows

\* the last Process call fired a cycle that ended without error
FiredOk == calls > 0 /\ fired /\ err = "none"

\* the last Process call admitted its tuple
Admitted == calls > 0 /\ err # "UnknownInput"

Occurrences(rows, row) == Cardinality({i \in 1..Len(rows) : rows[i] = row})

CountWindows == {i \in 1..Len(query.inputs) : query.inputs[i].unit = "TUPLES"}

TimeWindows == {i \in 1..Len(query.inputs) : query.inputs[i].unit = "SECONDS"}

\* C1: after every Process call every Count(n) window buffer holds at most n
\* tuples, and they are the n most recently admitted tuples of its relation,
\* in admission order.
C1_CountWindowHoldsMostRecent ==
    \A i \in CountWindows :
        LET w == query.inputs[i]
        IN /\ Len(buffers[w.name]) <= w.size
           /\ buffers[w.name] = LastN(admitted[w.name], w.size)

\* a Count(n) window that has received more than n tuples and is full
C1_Witness ==
    \E i \in CountWindows :
        LET w == query.inputs[i]
        IN /\ arrival_counts[w.name] > w.size
           /\ Len(buffers[w.name]) = w.size

\* the event timestamps of a Time(d) window's buffer lie within d of each other
SpreadWithin(i) ==
    \A a, b \in Range(buffers[query.inputs[i].name]) :
        a.ts - b.ts <= query.inputs[i].size

C3_FiresIffAllListed ==
    Admitted =>
        (fired <=> \A i \in 1..Len(query.cadence) :
                      arrival_counts[query.cadence[i].rel]
                          % query.cadence[i].threshold = 0)

\* C3 amended: a cycle fires on an admission iff the cadence is empty, or one
\* of its entries counts the admitted tuple (the single counter of EVERY k
\* TUPLES, or the entry of the relation the tuple arrived on) and that entry's
\* arrival count is a multiple of its threshold; the counts of the other
\* listed relations are not consulted.
C3_FiresIffOwnEntry ==
    Admitted =>
        (fired <=>
            \/ query.cadence = <<>>
            \/ \E i \in 1..Len(query.cadence) :
                  /\ query.cadence[i].rel \in {"*", lastTuple.input_name}
                  /\ arrival_counts[query.cadence[i].rel]
                         % query.cadence[i].threshold = 0)

\* a cycle has fired while the count of another listed relation is no
\* multiple of its threshold
C3_Witness ==
    /\ calls > 0
    /\ fired
    /\ \E i \in 1..Len(query.cadence) :
          arrival_counts[query.cadence[i].rel] % query.cadence[i].threshold # 0

\* C4: with a cadence that lists both relations (EVERY 2 TUPLES IN src1,
\* 3 TUPLES IN src2) the call admitting a tuple of relation r fires exactly
\* when the number of tuples admitted from r is a multiple of r's threshold,
\* whatever the count of the other relation.
C4_PerRelationCadence ==
    (Admitted /\ Listed(query.cadence) = {"src1", "src2"}) =>
        (fired <=> arrival_counts[lastTuple.input_name]
                       % Threshold(query.cadence, lastTuple.input_name) = 0)

\* the 2nd src1 tuple fires while one src2 tuple has arrived
C4_Witness ==
    /\ Listed(query.cadence) = {"src1", "src2"}
    /\ fired
    /\ lastTuple.input_name = "src1"
    /\ arrival_counts["src1"] = 2
    /\ arrival_counts["src2"] = 1

\* the last call admitted a tuple of a relation the cadence does not list
UnlistedAdmission ==
    /\ Admitted
    /\ query.cadence # <<>>
    /\ "*" \notin Listed(query.cadence)
    /\ lastTuple.input_name \notin Listed(query.cadence)

\* C5: when the cadence lists only some FROM relations, a call admitting a
\* tuple of an unlisted relation fires no cycle and returns an empty output
\* without error, and the tuple is in its window.
C5_UnlistedNeverFires ==
    UnlistedAdmission =>
        /\ ~fired
        /\ out = <<>>
        /\ err = "none"
        /\ buffers[lastTuple.input_name] # <<>>
        /\ buffers[lastTuple.input_name][Len(buffers[lastTuple.input_name])] = lastTuple

\* an unlisted admission at a moment the listed relation's count is a
\* positive multiple of its threshold
C5_Witness ==
    /\ UnlistedAdmission
    /\ \E i \in 1..Len(query.cadence) :
          /\ arrival_counts[query.cadence[i].rel] > 0
          /\ arrival_counts[query.cadence[i].rel] % query.cadence[i].threshold = 0

\* C6: a Process call whose cadence gate does not fire returns an empty
\* output and no error, leaves prev_output as it was, and still admits the
\* tuple: it is counted, it is the last tuple of its window, and the other
\* windows are untouched.
C6_SkippedCycleKeepsPrev ==
    [][(calls' = calls + 1 /\ err' # "UnknownInput" /\ ~fired') =>
          /\ out' = <<>>
          /\ err' = "none"
          /\ prev_output' = prev_output
          /\ arrival_counts'[lastTuple'.input_name]
                 = arrival_counts[lastTuple'.input_name] + 1
          /\ buffers'[lastTuple'.input_name]
                 [Len(buffers'[lastTuple'.input_name])] = lastTuple'
          /\ \A r \in Names(query) \ {lastTuple'.input_name} :
                 buffers'[r] = buffers[r]]_vars

\* a skipped ISTREAM/DSTREAM call after a fired cycle, the windows now holding
\* other rows than that cycle produced
C6_Witness ==
    /\ Admitted
    /\ ~fired
    /\ query.emitter # "RSTREAM"
    /\ prev_output # <<>>
    /\ Cur # prev_output

\* C7 as stated: a fired, error-free ISTREAM cycle returns the multiset
\* difference C \ P in the order of C, and prev_output = C afterwards.
C7_IstreamMultisetDifference ==
    (FiredOk /\ query.emitter = "ISTREAM") =>
        /\ out = multisetDifference(Cur, lastPrev)
        /\ prev_output = Cur

\* C7 amended: a fired, error-free ISTREAM cycle returns the rows of C that
\* are equal to no row of P, every occurrence of them, in the order of C, and
\* prev_output = C afterwards.
C7_IstreamRowsNotInPrev ==
    (FiredOk /\ query.emitter = "ISTREAM") =>
        /\ out = SelectSeq(Cur, LAMBDA row : \A k \in 1..Len(lastPrev) : lastPrev[k] # row)
        /\ prev_output = Cur

\* an ISTREAM cycle whose result shares a row with the previous result and
\* also has a new one
C7_Witness ==
    /\ FiredOk
    /\ query.emitter = "ISTREAM"
    /\ \E row \in Range(Cur) : row \in Range(lastPrev)
    /\ out # <<>>

\* C8: under ISTREAM a row of C equal to some row of P is never emitted,
\* however often it occurs in C, and a row of C absent from P is emitted as
\* often as it occurs in C.
C8_IstreamNeverReemits ==
    (FiredOk /\ query.emitter = "ISTREAM") =>
        /\ \A row \in Range(lastPrev) : row \notin Range(out)
        /\ \A row \in Range(Cur) \ Range(lastPrev) :
               Occurrences(out, row) = Occurrences(Cur, row)

\* an ISTREAM cycle that emits nothing although a row occurs more often in C
\* than in P
C8_Witness ==
    /\ FiredOk
    /\ query.emitter = "ISTREAM"
    /\ out = <<>>
    /\ \E row \in Range(Cur) : Occurrences(Cur, row) > Occurrences(lastPrev, row)

\* C9: a fired, error-free DSTREAM cycle returns the rows of P that no longer
\* occur in C, in the order they had in P, and prev_output = C afterwards; the
\* first such cycle of a plan returns nothing.
C9_DstreamRowsNotInCur ==
    (FiredOk /\ query.emitter = "DSTREAM") =>
        /\ out = SelectSeq(lastPrev, LAMBDA row : \A k \in 1..Len(Cur) : Cur[k] # row)
        /\ prev_output = Cur
        /\ (cycles = 1 => out = <<>>)

\* a DSTREAM cycle that returns two rows of the previous result
C9_Witness ==
    /\ FiredOk
    /\ query.emitter = "DSTREAM"
    /\ Len(out) = 2
    /\ Cur # <<>>

\* the product of the lengths of the windows
RECURSIVE ProductOfLengths(_)
ProductOfLengths(n) ==
    IF n = 0 THEN 1
    ELSE Len(buffers[query.inputs[n].name]) * ProductOfLengths(n - 1)

\* C10: a fired, error-free RSTREAM cycle returns the complete list C of the
\* rows of the current window contents, one per row-binding, duplicates kept,
\* whatever the previous cycles emitted.
C10_RstreamWholeResult ==
    (FiredOk /\ query.emitter = "RSTREAM") =>
        /\ out = Cur
        /\ query.filter = NoFilter => Len(out) = ProductOfLengths(Len(query.inputs))

\* an RSTREAM cycle that returns a row twice, and rows the previous cycle
\* produced too
C10_Witness ==
    /\ FiredOk
    /\ query.emitter = "RSTREAM"
    /\ \E row \in Range(out) : Occurrences(out, row) > 1
    /\ \E row \in Range(out) : row \in Range(lastPrev)

\* the last Process call fired a cycle whose evaluation failed
EvalError == calls > 0 /\ fired /\ err # "none"

\* the row-bindings of the windows as they are now
Bindings == snapshot(query, buffers)

\* the tuple carries the column the queries read
HasInt(x) == HasKey(x.data, "int")

Last(seq) == seq[Len(seq)]

\* C11: when the evaluation fails for any row-binding of a fired cycle, the
\* Process call returns an error and no row at all, not even the rows of the
\* bindings that evaluated before the failing one.
C11_ErrorDiscardsAllRows ==
    (Admitted /\ fired) =>
        /\ (\E k \in 1..Len(Bindings) : ~rowOf(query, Bindings[k]).ok) =>
               (err # "none" /\ out = <<>>)
        /\ err # "none" => out = <<>>

\* a failed cycle whose first row-binding evaluates and a later one does not
C11_Witness ==
    /\ EvalError
    /\ Len(Bindings) > 1
    /\ rowOf(query, Bindings[1]).keep
    /\ out = <<>>

\* C12: a Process call that returns an evaluation error leaves prev_output
\* unchanged, so prev_output is always the result of the last fired,
\* error-free cycle and the next ISTREAM or DSTREAM cycle diffs against it.
C12_ErrorKeepsPrevOutput ==
    /\ EvalError => prev_output = lastPrev
    /\ prev_output = lastGood
    /\ (FiredOk /\ query.emitter = "DSTREAM") =>
           \A row \in Range(lastPrev) : (row \in Range(out)) <=> (row \notin Range(Cur))
    /\ (FiredOk /\ query.emitter = "ISTREAM") =>
           \A row \in Range(Cur) : (row \in Range(out)) <=> (row \notin Range(lastPrev))

\* the ISTREAM cycle that follows two failed calls: the broken tuple has left
\* the window of two and both rows are new against the last good result
C12_Witness ==
    /\ FiredOk
    /\ query.emitter = "ISTREAM"
    /\ query.cadence = <<>>
    /\ Len(query.inputs) = 1
    /\ Len(admitted["src"]) = 3
    /\ ~HasInt(admitted["src"][1])
    /\ lastPrev # <<>>
    /\ Len(out) = 2

\* C13: when a Process call fails with an evaluation error its tuple has been
\* admitted all the same: it is the last tuple of its window, it has been
\* counted, and the window holds what normal eviction leaves of the admitted
\* tuples, the offending one included.
C13_ErrorKeepsAdmission ==
    EvalError =>
        LET r == lastTuple.input_name
            w == InputOf(query, r)
        IN /\ buffers[r] # <<>>
           /\ Last(buffers[r]) = lastTuple
           /\ arrival_counts["*"] = admissions
           /\ w.unit = "TUPLES" => buffers[r] = LastN(admitted[r], w.size)
           /\ \E x \in UNION {Range(buffers[n]) : n \in Names(query)} : ~HasInt(x)

\* a call fails although its own tuple is well formed: the offending tuple of
\* an earlier failed call is still at the head of the window
C13_Witness ==
    /\ EvalError
    /\ HasInt(lastTuple)
    /\ ~HasInt(buffers[lastTuple.input_name][1])
    /\ arrival_counts[lastTuple.input_name] > 1

\* C14: once no tuple that lacks the column is left in a window, a fired cycle
\* succeeds; for one Count(n) window read with the default cadence a call
\* fails exactly while a tuple lacking the column is among the n most recently
\* admitted ones.
C14_ErrorRecovery ==
    /\ (Admitted /\ fired /\ \A r \in Names(query) : \A x \in Range(buffers[r]) : HasInt(x))
           => err = "none"
    /\ (Admitted /\ query \in CountQueries /\ query.cadence = <<>>) =>
           (err # "none" <=>
               \E x \in Range(LastN(admitted["src"], query.inputs[1].size)) : ~HasInt(x))

\* a call succeeds right after the tuple lacking the column left the window
C14_Witness ==
    /\ FiredOk
    /\ query \in CountQueries
    /\ query.cadence = <<>>
    /\ Len(admitted["src"]) = query.inputs[1].size + 1
    /\ ~HasInt(admitted["src"][1])
    /\ \A x \in Range(buffers["src"]) : HasInt(x)

\* the window buffer of the i-th FROM relation
Window(i) == buffers[query.inputs[i].name]

\* C15: the rows of one Process output follow the cross product with the first
\* FROM relation's window as the outermost loop and the last one's as the
\* innermost, each window in admission order: for two windows the row of the
\* i-th left and j-th right tuple stands at position (i - 1) * |right| + j.
C15_ComposerOrder ==
    (FiredOk /\ query.emitter = "RSTREAM" /\ query.filter = NoFilter) =>
        /\ Len(query.inputs) = 1 =>
               /\ Len(out) = Len(Window(1))
               /\ \A i \in 1..Len(Window(1)) :
                      out[i] = project(query, <<Window(1)[i].data>>).row
        /\ Len(query.inputs) = 2 =>
               /\ Len(out) = Len(Window(1)) * Len(Window(2))
               /\ \A i \in 1..Len(Window(1)) : \A j \in 1..Len(Window(2)) :
                      out[(i - 1) * Len(Window(2)) + j]
                          = project(query, <<Window(1)[i].data, Window(2)[j].data>>).row

\* a join output of four rows whose left tuples differ and whose right tuples
\* differ, so that another loop order gives another sequence
C15_Witness ==
    /\ FiredOk
    /\ query.emitter = "RSTREAM"
    /\ Len(query.inputs) = 2
    /\ Len(out) = 4
    /\ Window(1)[1] # Window(1)[2]
    /\ Window(2)[1] # Window(2)[2]

\* C16: under RSTREAM, with no WHERE clause, a fired error-free Process call
\* returns as many rows as the product of the current lengths of all window
\* buffers, hence none while a joined window is empty.
C16_RstreamProductSize ==
    (FiredOk /\ query.emitter = "RSTREAM" /\ query.filter = NoFilter) =>
        /\ Len(out) = ProductOfLengths(Len(query.inputs))
        /\ (\E i \in 1..Len(query.inputs) : Window(i) = <<>>) => out = <<>>

\* a fired join cycle with tuples on one side and an empty window on the other
C16_Witness ==
    /\ FiredOk
    /\ query.emitter = "RSTREAM"
    /\ \E i, j \in 1..Len(query.inputs) : Window(i) = <<>> /\ Len(Window(j)) = 2
    /\ out = <<>>

\* the cadence is EVERY k TUPLES, naming no relation
SingleCounter == query.cadence # <<>> /\ Listed(query.cadence) = {"*"}

\* C17: with no EVERY clause every admission fires a cycle; with EVERY k TUPLES
\* one counter over all admissions is used and a cycle fires exactly on the
\* k-th, 2k-th, ... admission, every other call being skipped.
C17_DefaultAndSingleCounterCadence ==
    Admitted =>
        /\ query.cadence = <<>> => fired
        /\ SingleCounter =>
               /\ fired <=> admissions % Threshold(query.cadence, "*") = 0
               /\ ~fired => (out = <<>> /\ err = "none")

\* the second firing of an EVERY 2 TUPLES join, on its fourth admission, with
\* an odd number of tuples admitted from either relation
C17_Witness ==
    /\ Admitted
    /\ SingleCounter
    /\ fired
    /\ admissions = 2 * Threshold(query.cadence, "*")
    /\ Len(query.inputs) = 2
    /\ arrival_counts["src1"] % 2 = 1
    /\ arrival_counts["src2"] % 2 = 1

\* C18: Process on a tuple whose input name matches no FROM relation fails
\* with UnknownInput and changes no window buffer, no arrival count and not
\* prev_output.
C18_UnknownInputChangesNothing ==
    [][(calls' = calls + 1 /\ lastTuple'.input_name \notin Names(query)) =>
          /\ err' = "UnknownInput"
          /\ out' = <<>>
          /\ buffers' = buffers
          /\ arrival_counts' = arrival_counts
          /\ prev_output' = prev_output]_vars

\* a stray tuple rejected by a plan that holds tuples and a previous result
C18_Witness ==
    /\ err = "UnknownInput"
    /\ admissions > 0
    /\ prev_output # <<>>
    /\ lastTuple.input_name \notin Names(query)

\* C19: admitting a tuple with event timestamp t_new into a Time(d) window
\* drops exactly the tuples whose event timestamp is strictly less than
\* t_new - d; a tuple stamped exactly t_new - d stays.
C19_TimeEvictionBoundary ==
    [][(calls' = calls + 1 /\ err' # "UnknownInput"
            /\ InputOf(query, lastTuple'.input_name).unit = "SECONDS") =>
          LET r == lastTuple'.input_name
              d == InputOf(query, r).size
              t_new == lastTuple'.ts
          IN /\ buffers'[r] = SelectSeq(Append(buffers[r], lastTuple'),
                                        LAMBDA x : ~(x.ts < t_new - d))
             /\ \A x \in Range(buffers[r]) :
                    x.ts = t_new - d => x \in Range(buffers'[r])]_vars

\* tuples came one per second: the window holds the tuple stamped exactly
\* t_new - d and has dropped the one before it
C19_Witness ==
    /\ Admitted
    /\ ordered
    /\ \E i \in TimeWindows :
          LET w == query.inputs[i]
          IN /\ lastTuple.input_name = w.name
             /\ Len(buffers[w.name]) = w.size + 1
             /\ buffers[w.name][1].ts = lastTuple.ts - w.size
             /\ arrival_counts[w.name] = w.size + 2

RECURSIVE IsSubList(_, _)
\* sub is seq with some of its elements left out
IsSubList(sub, seq) ==
    IF sub = <<>> THEN TRUE
    ELSE IF seq = <<>> THEN FALSE
    ELSE IF Head(sub) = Head(seq) THEN IsSubList(Tail(sub), Tail(seq))
    ELSE IsSubList(sub, Tail(seq))

\* C20: every row emitted under ISTREAM at a cycle is a row of that cycle's
\* result C over the current window state: the output is a sub-list of C.
C20_IstreamSubListOfCurrent ==
    (FiredOk /\ query.emitter = "ISTREAM") =>
        /\ \A row \in Range(out) : row \in Range(Cur)
        /\ IsSubList(out, Cur)

\* an ISTREAM cycle that emits some but not all rows of its result
C20_Witness ==
    /\ FiredOk
    /\ query.emitter = "ISTREAM"
    /\ out # <<>>
    /\ Len(out) < Len(Cur)
    /\ lastPrev # <<>>

\* C21: every row emitted under DSTREAM at a cycle is equal to some row of the
\* result of the most recent earlier fired, error-free cycle and equal to no
\* row of the current cycle's result (lastGood before and after the call: the
\* rows of the windows as they stood at either cycle).
C21_DstreamSubsetOfPrevious ==
    [][(calls' = calls + 1 /\ fired' /\ err' = "none" /\ query.emitter = "DSTREAM") =>
          \A row \in Range(out') :
              /\ row \in Range(lastGood)
              /\ row \notin Range(lastGood')]_vars

\* a DSTREAM cycle behind a cadence returns a row: the cycle it diffs against
\* lies more than one call back
C21_Witness ==
    /\ FiredOk
    /\ query.emitter = "DSTREAM"
    /\ query.cadence # <<>>
    /\ out # <<>>

\* SELECT RSTREAM * FROM src [RANGE 1 TUPLES]
EchoQuery == Plan("RSTREAM", <<>>, <<Item("", Wild)>>, <<In("src", "", "TUPLES", 1)>>)

\* C23: SELECT RSTREAM * FROM s [RANGE 1 TUPLES] returns for every input tuple
\* exactly one row, equal to that tuple's data.
C23_EchoQuery ==
    (Admitted /\ query = EchoQuery) =>
        /\ fired
        /\ err = "none"
        /\ out = <<lastTuple.data>>

\* the echo of a later tuple whose data differs from the tuple before it
C23_Witness ==
    /\ Admitted
    /\ query = EchoQuery
    /\ Len(admitted["src"]) = 2
    /\ admitted["src"][1].data # lastTuple.data
    /\ lastTuple.data # {}
    /\ out = <<lastTuple.data>>

\* C24: the arrival count of the tuple's relation, and the counter over all
\* relations, go up by one on every admission, whether the call then fires,
\* is skipped or fails with an evaluation error.
C24_ArrivalCountsAdvance ==
    [][(calls' = calls + 1 /\ err' # "UnknownInput") =>
          arrival_counts' = [arrival_counts EXCEPT ![lastTuple'.input_name] = @ + 1,
                                                   !["*"] = @ + 1]]_vars

\* an EVERY 2 TUPLES plan fires on its fourth admission after its cycle on the
\* second admission failed: the failed call has advanced the cadence
C24_Witness ==
    /\ FiredOk
    /\ SingleCounter
    /\ admissions = 4
    /\ arrival_counts["*"] = 4
    /\ cycles = 1

\* the int the last tuple carries
V == Get(lastTuple.data, "int")

\* the positions <<i, j>> of the cross product of two windows, in composer order
Pairs ==
    [k \in 1..(Len(Window(1)) * Len(Window(2))) |->
        <<((k - 1) \div Len(Window(2))) + 1, ((k - 1) % Len(Window(2))) + 1>>]

\* the pairs whose int values are consecutive
ConsecutivePairs ==
    SelectSeq(Pairs, LAMBDA p : Get(Window(1)[p[1]].data, "int") + 1
                                    = Get(Window(2)[p[2]].data, "int"))

\* the tuples of the window whose int is even
EvenTuples == SelectSeq(Window(1), LAMBDA x : Get(x.data, "int") % 2 = 0)

\* C26: a row-binding contributes a row exactly when the WHERE predicate is
\* true of the input binding, also when the predicate reads columns that are
\* not in the SELECT list: WHERE src1:int + 1 = src2:int keeps the joined pairs
\* with consecutive int values, WHERE int % 2 = 0 the tuples with an even int.
C26_WhereOnInputBinding ==
    /\ (FiredOk /\ query.emitter = "RSTREAM" /\ query \in WhereJoinQueries) =>
           out = [k \in 1..Len(ConsecutivePairs) |->
                     {<<"l", Get(Window(1)[ConsecutivePairs[k][1]].data, "l")>>,
                      <<"r", Get(Window(2)[ConsecutivePairs[k][2]].data, "r")>>}]
    /\ (FiredOk /\ query \in WhereQueries) =>
           out = [k \in 1..Len(EvenTuples) |-> {<<"b", Get(EvenTuples[k].data, "int")>>}]
    /\ (Admitted /\ query \in WhereJoinQueries) => err = "none"

\* a join of two full windows of which the predicate keeps some pairs and
\* rejects others
C26_Witness ==
    /\ FiredOk
    /\ query.emitter = "RSTREAM"
    /\ query \in WhereJoinQueries
    /\ Len(Window(1)) = 2
    /\ Len(Window(2)) = 2
    /\ Len(out) = 2

\* C27: projection items are applied left to right and a later item overwrites
\* an earlier one under the same key: *, (int-1)*2 AS int yields the computed
\* value under int, (int-1)*2 AS int, * yields the input's int, and * AS x
\* puts the whole input data as a nested mapping under x.
C27_LastWriteWins ==
    (FiredOk /\ query \in ProjectionQueries /\ HasInt(lastTuple)) =>
        /\ query.projection = <<Item("", Wild), Item("int", CalcInt)>> =>
               out = << {<<"int", (V - 1) * 2>>} >>
        /\ query.projection = <<Item("int", CalcInt), Item("", Wild)>> =>
               out = << {<<"int", V>>} >>
        /\ query.projection = <<Item("x", Wild), Item("", CalcInt)>> =>
               out = << {<<"x", lastTuple.data>>, <<"col_2", (V - 1) * 2>>} >>

\* *, (int-1)*2 AS int on a tuple whose int differs from the computed value
C27_Witness ==
    /\ FiredOk
    /\ query \in ProjectionQueries
    /\ query.projection = <<Item("", Wild), Item("int", CalcInt)>>
    /\ HasInt(lastTuple)
    /\ (V - 1) * 2 # V
    /\ out = << {<<"int", (V - 1) * 2>>} >>

\* the positions of the projection items that carry no AS name, the wildcard
\* aside
Anonymous ==
    {n \in 1..Len(query.projection) :
        query.projection[n].name = "" /\ query.projection[n].expr.op # "wild"}

\* the anonymous items that are no bare column reference
AnonymousExpressions == {n \in Anonymous : query.projection[n].expr.op # "ref"}

\* the anonymous items that are a bare column reference
BareColumns == {n \in Anonymous : query.projection[n].expr.op = "ref"}

\* C28 as stated: every projection item without AS, a bare column reference
\* included, is output under the key col_N, N the 1-based position of the item
\* in the projection list.
C28_AnonymousIsColN ==
    FiredOk =>
        \A n \in Anonymous : \A k \in 1..Len(out) : HasKey(out[k], ColName(n))

\* C28 amended: every projection item without AS that is neither a bare column
\* reference nor a wildcard is output under the key col_N, N the 1-based
\* position of the item in the projection list, and col_N holds its value.
C28_AnonymousExpressionIsColN ==
    (FiredOk /\ query \in ProjectionQueries) =>
        \A n \in AnonymousExpressions :
            /\ Len(out) = 1
            /\ HasKey(out[1], ColName(n))
            /\ Get(out[1], ColName(n))
                   = eval(query, <<lastTuple.data>>, query.projection[n].expr).v
            /\ \A m \in 1..3 : (m # n /\ m \notin AnonymousExpressions)
                                   => ~HasKey(out[1], ColName(m))

\* * AS x, (int-1)*2: the expression in second position is output as col_2
C28_Witness ==
    /\ FiredOk
    /\ query \in ProjectionQueries
    /\ query.projection = <<Item("x", Wild), Item("", CalcInt)>>
    /\ Keys(out[1]) = {"x", "col_2"}

\* C29: a projection item that is a bare column reference without AS,
\* unqualified or qualified by source name or alias, is output under the
\* column's own name and not under col_N.
C29_BareColumnKeepsName ==
    /\ (FiredOk /\ query \in ProjectionQueries) =>
           \A n \in BareColumns :
               /\ Len(out) = 1
               /\ HasKey(out[1], query.projection[n].expr.key)
               /\ Get(out[1], query.projection[n].expr.key) = V
               /\ ~HasKey(out[1], ColName(n))
    /\ (FiredOk /\ query \in WhereJoinQueries) =>
           \A k \in 1..Len(out) : Keys(out[k]) = {"l", "r"}

\* 2, x:int FROM src AS x returns col_1 and int
C29_Witness ==
    /\ FiredOk
    /\ query \in ProjectionQueries
    /\ query.inputs[1].alias = "x"
    /\ out = << {<<"col_1", 2>>, <<"int", V>>} >>

\* the Build calls that returned a topology
Built == {i \in 1..Len(builds) : builds[i] = "none"}

Plains(buf) == [k \in 1..Len(buf) |-> Plain(buf[k])]

\* the windows as the admissions alone determine them
AdmittedWindows ==
    [r \in Names(query) |-> LastN(admitted[r], InputOf(query, r).size)]

\* C25: the window holds the tuples as they were when admitted, whatever the
\* caller has written into its own tuples since, and a fired, error-free
\* Process call returns the rows of those admitted values.
C25_DeepCopyOnAdmission ==
    /\ \A r \in Names(query) : Plains(buffers[r]) = AdmittedWindows[r]
    /\ FiredOk =>
           out = computeResultTuples(query.emitter,
                                     performQueryOnBuffer(query, AdmittedWindows).rows,
                                     lastPrev)

\* the caller overwrote a tuple right after handing it over, and the next
\* Process call, with that tuple still in the window, returned rows
C25_Witness ==
    /\ FiredOk
    /\ out # <<>>
    /\ cells # <<>>
    /\ cells[1].prior
    /\ Len(buffers["src"]) = 2

\* the predicate fails on binding k, or accepts it and the projection fails
FailsAt(k) ==
    LET f == eval(query, Bindings[k], query.filter)
    IN ~f.ok \/ (f.v = TRUE /\ ~project(query, Bindings[k]).ok)

\* C31: within a fired cycle the projection is evaluated only for the
\* row-bindings the WHERE predicate accepts: Process fails only when the
\* predicate fails on a binding or the projection fails on an accepted one,
\* and 2 % (int - 1) ... WHERE int % 2 = 0 returns the rows of the even tuples
\* although the projection would fail on a rejected tuple with int = 1.
C31_WhereBeforeProjection ==
    (Admitted /\ fired) =>
        /\ err # "none" <=> \E k \in 1..Len(Bindings) : FailsAt(k)
        /\ (query \in GuardedQueries /\ \A x \in Range(Window(1)) : HasInt(x)) =>
               /\ err = "none"
               /\ out = [k \in 1..Len(EvenTuples) |->
                            {<<"a", 2 % (Get(EvenTuples[k].data, "int") - 1)>>}]

\* a fired cycle over a window that holds a tuple the predicate rejects and
\* the projection fails on, next to a tuple that yields a row
C31_Witness ==
    /\ FiredOk
    /\ query \in GuardedQueries
    /\ Len(out) = 1
    /\ \E x \in Range(Window(1)) :
           /\ HasInt(x)
           /\ Get(x.data, "int") = 1
           /\ ~project(query, <<x.data>>).ok

\* the nodes an edge leads to from node n
Successors(n) == {Edges[i].To : i \in {j \in 1..Len(Edges) : Edges[j].From = n}}

RECURSIVE ReachedWithin(_, _)
\* the nodes reached from the set S by at most k further edges
ReachedWithin(S, k) ==
    IF k = 0 THEN S
    ELSE ReachedWithin(S \cup UNION {Successors(n) : n \in S}, k - 1)

\* the declared edges contain a directed cycle, a self-loop included
HasDirectedCycle ==
    \E n \in NodeNames : n \in ReachedWithin(Successors(n), Cardinality(NodeNames))

\* the last call was a Build on an unbuilt builder with at least one source
BuildRan ==
    /\ result.op = "Build"
    /\ result.err \notin {"already built", "there must be at least one source"}

\* C32: a Build call that gets as far as the graph check returns the cycle
\* error if and only if the declared edges contain a directed cycle, a
\* self-loop included, and returns a topology only when there is none.
C32_CycleErrorIffCycle ==
    BuildRan =>
        /\ result.err = "the topology has a cycle" <=> HasDirectedCycle
        /\ result.st # {} => ~HasDirectedCycle

\* Build returned a topology whose edges contain a cycle
C32_CycleBuilt ==
    /\ result.op = "Build"
    /\ result.st # {}
    /\ HasDirectedCycle

\* Build found a cycle that a source leads into
C32_CycleFound ==
    /\ result.op = "Build"
    /\ result.err = "the topology has a cycle"
    /\ HasDirectedCycle

\* C33: an Input or NamedInput call whose edge (same From, To and InputName)
\* is already in the builder's edge list sets the 'already connected' error
\* and adds nothing, so the edge list never holds two identical edges.
C33_NoDuplicateEdges ==
    \A i, j \in 1..Len(Edges) : i # j => Edges[i] # Edges[j]

\* a repeated first edge is rejected
C33_FirstEdgeRejected ==
    /\ result.err = "already connected"
    /\ Len(Edges) >= 1

\* the names registered as a source, a box or a sink
Registered == sources \cup Keys(boxes) \cup sinks

\* the step is a call of AddSource, AddBox or AddSink
AddCall ==
    /\ tbcalls' = tbcalls + 1
    /\ result'.op \in {"AddSource", "AddBox", "AddSink"}

\* C34: after every Add call the names of the sources, the boxes and the sinks
\* are pairwise disjoint and every box name stands for one box, and an Add
\* call with a name that a source, a box or a sink already has returns an
\* error and leaves sources, boxes, sinks and edges as they were.
C34_NamesStayDisjoint ==
    [][AddCall =>
          /\ sources' \cap Keys(boxes') = {}
          /\ sources' \cap sinks' = {}
          /\ Keys(boxes') \cap sinks' = {}
          /\ Cardinality(boxes') = Cardinality(Keys(boxes'))
          /\ result'.args[1] \in Registered =>
                 /\ result'.err # "none"
                 /\ UNCHANGED <<sources, boxes, sinks, Edges>>]_vars

\* AddBox was refused a name that a sink already has, on an unbuilt builder
C34_Witness ==
    /\ result.op = "AddBox"
    /\ result.err = "there is already a sink"
    /\ result.args[1] \in sinks
    /\ ~builtFlag

\* a Build call has returned a topology
HasBuilt == Built # {}

\* C35: once a Build call has succeeded, every AddSource, AddBox and AddSink
\* call returns an error, whatever the name, and adds nothing to the builder.
C35_AddAfterBuildFails ==
    [][(AddCall /\ HasBuilt) =>
          /\ result'.err # "none"
          /\ UNCHANGED <<sources, boxes, sinks, Edges>>]_vars

\* after a successful Build an Add call with a name nobody uses was refused
C35_Witness ==
    /\ HasBuilt
    /\ result.op \in {"AddSource", "AddBox", "AddSink"}
    /\ result.args[1] \notin Registered
    /\ result.err = "already built"

\* C36: once a Build call has succeeded, no later call on the builder or on
\* one of its declarers changes the builder's sources, boxes, sinks or edges.
C36_FrozenAfterBuild ==
    [][HasBuilt => UNCHANGED <<sources, boxes, sinks, Edges>>]_vars

\* after a successful Build, Build and the Add methods are refused
C36_BuilderMethodsRefused ==
    /\ HasBuilt
    /\ result.op \in {"Build", "AddSource", "AddBox", "AddSink"}
    /\ result.err = "already built"

\* the step is a call of Input or NamedInput on a declarer
InputCall ==
    /\ tbcalls' = tbcalls + 1
    /\ result'.op \in {"Input", "NamedInput"}

\* C37: after every call each edge starts at a registered source or box and
\* ends at a registered box or sink, an Input or NamedInput call whose
\* reference names no source and no box (nothing, or a sink) returns an error
\* and adds no edge, and Build never connects a pipe to a node or a
\* destination that does not exist.
C37_EdgeEndpointsRegistered ==
    [][tbcalls' = tbcalls + 1 =>
          /\ \A i \in 1..Len(Edges') :
                 /\ Edges'[i].From \in sources' \cup Keys(boxes')
                 /\ Edges'[i].To \in Keys(boxes') \cup sinks'
          /\ result'.err # "panic"
          /\ (InputCall /\ result'.args[2] \notin sources \cup Keys(boxes)) =>
                 /\ result'.err # "none"
                 /\ Edges' = Edges]_vars

\* a sink declarer without an error was asked to read from a sink and refused
C37_Witness ==
    /\ result.op = "Input"
    /\ result.args[2] \in sinks
    /\ result.err = "there is no box or source"
    /\ declarers[result.args[1]].kind = "sink"
    /\ declarers[result.args[1]].name # ""

\* C38: an Input or NamedInput call on a box or sink declarer that holds an
\* error, from a failed Add call or from an earlier failed Input, adds no
\* edge, changes nothing of the builder and leaves the declarer's error as
\* it was.
C38_DeclarerErrorSticky ==
    [][(InputCall /\ declarers[result'.args[1]].err # "none") =>
          /\ UNCHANGED <<sources, boxes, sinks, Edges, builtFlag>>
          /\ declarers' = declarers
          /\ result'.err = declarers[result'.args[1]].err]_vars

\* a declarer whose earlier Input failed for an unknown reference was asked
\* to connect a reference that exists, and still holds the first error
C38_Witness ==
    /\ result.op \in {"Input", "NamedInput"}
    /\ result.args[2] \in sources \cup Keys(boxes)
    /\ result.err = "there is no box or source"
    /\ declarers[result.args[1]].err = "there is no box or source"

\* the step is a call of Build
BuildCall ==
    /\ tbcalls' = tbcalls + 1
    /\ result'.op = "Build"

\* the errors of a Build call that found the builder not ready
NotReady == {"there must be at least one source", "the topology has a cycle"}

\* C39: a Build call that fails for want of a source or for a cycle returns
\* no topology and leaves sources, boxes, sinks, edges and declarers as they
\* were and the builder unbuilt; Build without a source always fails; and as
\* long as no Build has succeeded, an Add call with an unused name is accepted.
C39_FailedBuildLeavesBuilder ==
    [][/\ (BuildCall /\ result'.err \in NotReady) =>
              /\ result'.st = {}
              /\ ~builtFlag'
              /\ UNCHANGED <<sources, boxes, sinks, Edges, declarers>>
       /\ (BuildCall /\ sources = {}) => result'.err # "none"
       /\ (AddCall /\ ~HasBuilt /\ result'.args[1] \notin Registered) =>
              /\ result'.err = "none"
              /\ result'.args[1] \in Registered']_vars

\* after a Build that failed for want of a source, AddSource was accepted
C39_Witness ==
    /\ builds # <<>>
    /\ builds[Len(builds)] = "there must be at least one source"
    /\ result.op = "AddSource"
    /\ result.err = "none"
    /\ result.args[1] \in sources

====
